---- MODULE Spec2Model ----
(***************************************************************************)
(* mineru-json-to-md (src/src/main.rs): conversion of a MinerU layout JSON *)
(* document into Markdown with embedded HTML.                              *)
(*                                                                         *)
(* Text is a sequence of atoms.  An atom is either one character of        *)
(* document content ("x", " ", "$", ...) or one literal piece of a format  *)
(* string of the source (named below after the place it is used).          *)
(* Option<T> is a record [some, val]; val is only read when some is TRUE.  *)
(***************************************************************************)
EXTENDS Integers, Sequences, FiniteSets, TLC

VARIABLES
    pc,              \* position of the running program
    args,            \* std::env::args(): program name, input path, output path
    disk,            \* what the input path holds: missing/unreadable/malformed/ok
    files,           \* image files under the base directory: path -> file
    layout_json,     \* main: the parsed LayoutJson
    markdown,        \* convert_layout_to_markdown: the output buffer
    all_toc_entries, \* convert_layout_to_markdown: collected TocEntry values
    page_contents,   \* convert_layout_to_markdown: one fragment per page
    p,               \* index of the page being rendered / emitted (loop counter)
    content_html,    \* render_page: the page's buffer
    toc_entries,     \* render_page: the page's TocEntry values
    b,               \* render_page: index of the next para_block
    block,           \* render_block: the block being rendered
    page_idx,        \* render_block / generate_anchor_id: the page index argument
    html,            \* render_block: the fragment returned
    toc_entry,       \* render_block: the Option<TocEntry> returned
    title,           \* generate_anchor_id: the title argument
    anchor_id,       \* generate_anchor_id: the id returned
    writes,          \* every fs::write call made: path, content, whether it succeeded
    stderr,          \* the error reports printed
    exit_status      \* process exit status, -1 while running

vars == <<pc, args, disk, files, layout_json, markdown, all_toc_entries,
          page_contents, p, content_html, toc_entries, b, block, page_idx,
          html, toc_entry, title, anchor_id, writes, stderr, exit_status>>

(***************************************************************************)
(* Bounds of the model.                                                    *)
(***************************************************************************)
MaxSpans == 2       \* spans of one block, over all its lines
MaxChildren == 2    \* child blocks of one container block
MaxSegs == 3        \* runs of equal characters in a generated title
MaxPages == 2       \* pages of a document

(***************************************************************************)
(* Program constants.                                                      *)
(***************************************************************************)
SlugCap == 50       \* generate_anchor_id: .take(50)
LevelLimit == 20    \* render_title: text.chars().count() > 20

(***************************************************************************)
(* Option<T>                                                               *)
(***************************************************************************)
Some(v) == [some |-> TRUE, val |-> v]
None == [some |-> FALSE, val |-> <<>>]

(***************************************************************************)
(* Characters.  CodePoint gives the Unicode scalar value of each character *)
(* atom of the model; "U+4E2D", "U+9FA5" and "U+9FA6" name CJK ideographs. *)
(***************************************************************************)
Chars == {"a", "x", "y", "z", "e", "f", "A", "B", "7", "-", "!", "$", " ",
          "\n", "&", "<", ">", "U+4E2D", "U+9FA5", "U+9FA6",
          "t", "i", "l"}

CodePoint(c) ==
    CASE c = "a" -> 97 [] c = "x" -> 120 [] c = "y" -> 121 [] c = "z" -> 122
      [] c = "e" -> 101 [] c = "f" -> 102 [] c = "A" -> 65 [] c = "B" -> 66
      [] c = "t" -> 116 [] c = "i" -> 105 [] c = "l" -> 108
      [] c = "7" -> 55 [] c = "-" -> 45 [] c = "!" -> 33 [] c = "$" -> 36
      [] c = " " -> 32 [] c = "\n" -> 10 [] c = "&" -> 38 [] c = "<" -> 60
      [] c = ">" -> 62
      [] c = "U+4E2D" -> 20013 [] c = "U+9FA5" -> 40869 [] c = "U+9FA6" -> 40870

\* char::is_alphanumeric: Unicode Alphabetic or Numeric, on the code points
\* of Chars (ASCII digits and letters, CJK Unified Ideographs U+4E00..U+9FFF).
is_alphanumeric(c) ==
    LET cp == CodePoint(c) IN
        \/ (cp >= 48 /\ cp <= 57)
        \/ (cp >= 65 /\ cp <= 90)
        \/ (cp >= 97 /\ cp <= 122)
        \/ (cp >= 19968 /\ cp <= 40959)

is_ascii_alphabetic(c) ==
    LET cp == CodePoint(c) IN (cp >= 65 /\ cp <= 90) \/ (cp >= 97 /\ cp <= 122)

\* char::is_whitespace on the code points of Chars
is_whitespace(c) == CodePoint(c) \in {9, 10, 11, 12, 13, 32}

(***************************************************************************)
(* Sequence helpers standing for the std string methods the source uses.   *)
(***************************************************************************)
RECURSIVE Concat(_)
\* [String].join("") / a run of push_str
Concat(ss) == IF ss = <<>> THEN <<>> ELSE Head(ss) \o Concat(Tail(ss))

RECURSIVE JoinWith(_, _)
\* [String].join(sep)
JoinWith(ss, sep) ==
    IF ss = <<>> THEN <<>>
    ELSE IF Len(ss) = 1 THEN ss[1]
    ELSE ss[1] \o sep \o JoinWith(Tail(ss), sep)

RECURSIVE TrimStart(_, _)
\* str::trim_start_matches: drop the leading characters that are in D
TrimStart(s, D) ==
    IF s # <<>> /\ Head(s) \in D THEN TrimStart(Tail(s), D) ELSE s

RECURSIVE TrimEnd(_, _)
\* str::trim_end_matches: drop the trailing characters that are in D
TrimEnd(s, D) ==
    IF s # <<>> /\ s[Len(s)] \in D THEN TrimEnd(SubSeq(s, 1, Len(s) - 1), D)
    ELSE s

WhiteSpace == {c \in Chars : is_whitespace(c)}

\* str::trim
Trim(s) == TrimEnd(TrimStart(s, WhiteSpace), WhiteSpace)

\* str::trim_matches('-')
TrimHyphens(s) == TrimEnd(TrimStart(s, {"-"}), {"-"})

\* Iterator::take(n)
Take(s, n) == SubSeq(s, 1, IF Len(s) < n THEN Len(s) ELSE n)

Rep(c, n) == [k \in 1..n |-> c]

(***************************************************************************)
(* Document model (main.rs 8-63).  The fields the renderers never read     *)
(* (bbox, angle, index, sub_type, page_size, _backend, _version_name) are  *)
(* left out.  An image path is [stem, ext]; ext = "" is a path without an  *)
(* extension.                                                              *)
(***************************************************************************)
Path(stem, ext) == [stem |-> stem, ext |-> ext]
NoPath == [some |-> FALSE, val |-> Path("", "")]

Span(t, content, image_path) ==
    [span_type |-> t, content |-> content, image_path |-> image_path]
Line(spans) == [spans |-> spans]
Block(t, lines, blocks) == [block_type |-> t, lines |-> lines, blocks |-> blocks]
PageInfo(para, discarded, idx) ==
    [para_blocks |-> para, discarded_blocks |-> discarded, page_idx |-> idx]
TocEntry(t, pg, id, lvl) ==
    [title |-> t, page_idx |-> pg, anchor_id |-> id, level |-> lvl]

(***************************************************************************)
(* image_to_base64 (main.rs 67-91)                                         *)
(***************************************************************************)
B64 ==
    <<"A", "B", "C", "D", "E", "F", "G", "H", "I", "J", "K", "L", "M", "N", "O", "P",
      "Q", "R", "S", "T", "U", "V", "W", "X", "Y", "Z", "a", "b", "c", "d", "e", "f",
      "g", "h", "i", "j", "k", "l", "m", "n", "o", "p", "q", "r", "s", "t", "u", "v",
      "w", "x", "y", "z", "0", "1", "2", "3", "4", "5", "6", "7", "8", "9", "+", "/">>

RECURSIVE Base64Encode(_)
\* general_purpose::STANDARD.encode: 3 bytes -> 4 characters, '=' padding
Base64Encode(data) ==
    IF data = <<>> THEN <<>>
    ELSE IF Len(data) = 1 THEN
        <<B64[(data[1] \div 4) + 1], B64[((data[1] % 4) * 16) + 1], "=", "=">>
    ELSE IF Len(data) = 2 THEN
        <<B64[(data[1] \div 4) + 1],
          B64[((data[1] % 4) * 16 + (data[2] \div 16)) + 1],
          B64[((data[2] % 16) * 4) + 1], "=">>
    ELSE
        <<B64[(data[1] \div 4) + 1],
          B64[((data[1] % 4) * 16 + (data[2] \div 16)) + 1],
          B64[((data[2] % 16) * 4 + (data[3] \div 64)) + 1],
          B64[(data[3] % 64) + 1]>>
        \o Base64Encode(SubSeq(data, 4, Len(data)))

\* str::to_lowercase on the extensions of the model
ToLowercase(ext) ==
    CASE ext = "PNG" -> "png" [] ext = "JPG" -> "jpg" [] ext = "Gif" -> "gif"
      [] OTHER -> ext

MimeType(ext) ==
    CASE ext = "png" -> "image/png"
      [] ext = "gif" -> "image/gif"
      [] ext = "webp" -> "image/webp"
      [] OTHER -> "image/jpeg"

\* fs is the directory base_path: fs[image_path] is the file base_path.join(image_path)
image_to_base64(image_path, fs) ==
    IF image_path \notin DOMAIN fs THEN None
    ELSE IF ~fs[image_path].readable THEN None
    ELSE LET ext == ToLowercase(IF image_path.ext = "" THEN "jpg" ELSE image_path.ext)
         IN  Some(<<"data:", MimeType(ext), ";base64,">>
                  \o Base64Encode(fs[image_path].data))

(***************************************************************************)
(* escape_html (main.rs 93-97)                                             *)
(***************************************************************************)
Replace(text, from, to) ==
    [k \in 1..Len(text) |-> IF text[k] = from THEN to ELSE text[k]]

escape_html(text) ==
    Replace(Replace(Replace(text, "&", "&amp;"), "<", "&lt;"), ">", "&gt;")

(***************************************************************************)
(* generate_anchor_id (main.rs 99-123)                                     *)
(***************************************************************************)
\* mutant: the slug is cut to 50 characters before the hyphens are stripped
AnchorSlugTruncatesFirst(t) ==
    TrimHyphens(Take([k \in 1..Len(t) |->
        IF \/ is_alphanumeric(t[k])
           \/ is_ascii_alphabetic(t[k])
           \/ (CodePoint(t[k]) >= 19968 /\ CodePoint(t[k]) <= 40869)
        THEN t[k] ELSE "-"], SlugCap))

AnchorSlug(t) ==
    Take(TrimHyphens([k \in 1..Len(t) |->
        IF \/ is_alphanumeric(t[k])
           \/ is_ascii_alphabetic(t[k])
           \/ (CodePoint(t[k]) >= 19968 /\ CodePoint(t[k]) <= 40869)
        THEN t[k] ELSE "-"]), SlugCap)

generate_anchor_id(t, idx) ==
    LET slug == AnchorSlug(t) IN
        <<"toc-", ToString(idx), "-">>
        \o (IF slug = <<>> THEN <<"t", "i", "t", "l", "e">> ELSE slug)

(***************************************************************************)
(* extract_text_from_block (main.rs 127-147)                               *)
(***************************************************************************)
\* the spans of a block's own lines, in line/span order
OwnSpans(blk) ==
    IF blk.lines.some
    THEN Concat([k \in 1..Len(blk.lines.val) |-> blk.lines.val[k].spans])
    ELSE <<>>

SpanContents(spans) ==
    Concat([k \in 1..Len(spans) |->
        IF spans[k].content.some THEN spans[k].content.val ELSE <<>>])

RECURSIVE extract_text_from_block(_)
extract_text_from_block(blk) ==
    SpanContents(OwnSpans(blk))
    \o (IF blk.blocks.some
        THEN Concat([k \in 1..Len(blk.blocks.val) |->
                 extract_text_from_block(blk.blocks.val[k])])
        ELSE <<>>)

(***************************************************************************)
(* render_rich_text (main.rs 151-178)                                      *)
(***************************************************************************)
RichSpan(span) ==
    CASE span.span_type = "inline_equation" ->
            IF span.content.some THEN <<"$">> \o span.content.val \o <<"$">> ELSE <<>>
      [] span.span_type = "text" ->
            IF span.content.some THEN span.content.val ELSE <<>>
      [] OTHER -> <<>>

render_rich_text(blk) ==
    LET spans == OwnSpans(blk) IN
        [html |-> Concat([k \in 1..Len(spans) |-> RichSpan(spans[k])]),
         has_formula |-> \E k \in 1..Len(spans) :
                             spans[k].span_type = "inline_equation"]

(***************************************************************************)
(* render_title (main.rs 182-206)                                          *)
(***************************************************************************)
\* mutant: the level test is >= 20 instead of > 20
render_title_level_ge(blk, idx) ==
    LET text == Trim(extract_text_from_block(blk)) IN
    IF text = <<>> THEN [html |-> <<>>, toc_entry |-> None]
    ELSE
        LET id == generate_anchor_id(text, idx)
            level == IF Len(text) >= LevelLimit THEN 2 ELSE 1
            heading_prefix == IF level = 1 THEN "##" ELSE "###"
        IN  [html |-> <<"<a id=\"">> \o id \o <<"\"></a>\n", heading_prefix, " ">>
                      \o text \o <<"\n", "\n">>,
             toc_entry |-> Some(TocEntry(text, idx + 1, id, level))]

render_title(blk, idx) ==
    LET text == Trim(extract_text_from_block(blk)) IN
    IF text = <<>> THEN [html |-> <<>>, toc_entry |-> None]
    ELSE
        LET id == generate_anchor_id(text, idx)
            level == IF Len(text) > LevelLimit THEN 2 ELSE 1
            heading_prefix == IF level = 1 THEN "##" ELSE "###"
        IN  [html |-> <<"<a id=\"">> \o id \o <<"\"></a>\n", heading_prefix, " ">>
                      \o text \o <<"\n", "\n">>,
             toc_entry |-> Some(TocEntry(text, idx + 1, id, level))]

(***************************************************************************)
(* render_text (main.rs 208-214)                                           *)
(***************************************************************************)
render_text(blk) ==
    LET text == render_rich_text(blk).html IN
        IF Trim(text) = <<>> THEN <<>> ELSE Trim(text) \o <<"\n", "\n">>

(***************************************************************************)
(* render_list (main.rs 216-232)                                           *)
(***************************************************************************)
ListItem(sub) ==
    LET text == Trim(extract_text_from_block(sub)) IN
        IF sub.block_type = "list_item" /\ text # <<>>
        THEN << <<"-", " ">> \o text >> ELSE <<>>

render_list(blk) ==
    IF blk.blocks.some
    THEN LET items == Concat([k \in 1..Len(blk.blocks.val) |->
                          ListItem(blk.blocks.val[k])])
         IN  IF items # <<>> THEN JoinWith(items, <<"\n">>) \o <<"\n", "\n">>
             ELSE <<>>
    ELSE <<>>

(***************************************************************************)
(* render_image (main.rs 234-279)                                          *)
(***************************************************************************)
\* the data URIs of the spans of kind t of one body block that resolve, in
\* line/span order (main.rs 241-256, 289-304)
ResolvedIn(sub, t, fs) ==
    LET spans == OwnSpans(sub) IN
        Concat([k \in 1..Len(spans) |->
            IF /\ spans[k].span_type = t
               /\ spans[k].image_path.some
               /\ image_to_base64(spans[k].image_path.val, fs).some
            THEN <<image_to_base64(spans[k].image_path.val, fs).val>>
            ELSE <<>>])

\* the data URIs that resolve over all children of kind body, in child order
Resolved(blk, body, t, fs) ==
    IF blk.blocks.some
    THEN Concat([k \in 1..Len(blk.blocks.val) |->
             IF blk.blocks.val[k].block_type = body
             THEN ResolvedIn(blk.blocks.val[k], t, fs) ELSE <<>>])
    ELSE <<>>

\* image_html / table_html after the loop: every resolved span assigns it
LastAssigned(uris) == IF uris = <<>> THEN <<>> ELSE uris[Len(uris)]

ImgTag(base64, alt) ==
    <<"<img src=\"">> \o base64
    \o <<"\" alt=\"", alt,
         "\" style=\"max-width: 100%; height: auto; display: block; margin: 0 auto;\" />">>

\* the push_str / assignment one caption-like child performs (empty when the
\* child is of another kind or has no text)
Captioned(sub, kinds, open, close) ==
    LET text == Trim(extract_text_from_block(sub)) IN
        IF sub.block_type \in kinds /\ text # <<>>
        THEN << <<open>> \o escape_html(text) \o <<close>> >>
        ELSE <<>>

Captions(blk, kinds, open, close) ==
    IF blk.blocks.some
    THEN Concat([k \in 1..Len(blk.blocks.val) |->
             Captioned(blk.blocks.val[k], kinds, open, close)])
    ELSE <<>>

\* mutant: the figure is emitted with its captions when no image resolved
render_image_keeps_captions(blk, fs) ==
    LET uri == LastAssigned(Resolved(blk, "image_body", "image", fs))
        image_html == IF uri = <<>> THEN <<>> ELSE ImgTag(uri, "figure")
        caption_html ==
            Concat(Captions(blk, {"image_caption", "image_footnote"},
                "<figcaption style=\"text-align: center; font-size: 0.9em; color: #666; margin-top: 0.5em;\">",
                "</figcaption>"))
    IN  IF image_html = <<>> /\ caption_html = <<>> THEN <<>>
        ELSE <<"<figure style=\"margin: 1.5em 0; text-align: center;\">\n">>
             \o image_html \o <<"\n">> \o caption_html
             \o <<"\n</figure>", "\n", "\n">>

render_image(blk, fs) ==
    LET uri == LastAssigned(Resolved(blk, "image_body", "image", fs))
        image_html == IF uri = <<>> THEN <<>> ELSE ImgTag(uri, "figure")
        caption_html ==
            Concat(Captions(blk, {"image_caption", "image_footnote"},
                "<figcaption style=\"text-align: center; font-size: 0.9em; color: #666; margin-top: 0.5em;\">",
                "</figcaption>"))
    IN  IF image_html = <<>> THEN <<>>
        ELSE <<"<figure style=\"margin: 1.5em 0; text-align: center;\">\n">>
             \o image_html \o <<"\n">> \o caption_html
             \o <<"\n</figure>", "\n", "\n">>

(***************************************************************************)
(* render_table (main.rs 281-333)                                          *)
(***************************************************************************)
render_table(blk, fs) ==
    LET uri == LastAssigned(Resolved(blk, "table_body", "table", fs))
        table_html == IF uri = <<>> THEN <<>> ELSE ImgTag(uri, "table")
        caption_html ==
            LastAssigned(Captions(blk, {"table_caption"},
                "<caption style=\"font-weight: bold; margin-bottom: 0.5em;\">",
                "</caption>"))
        footnote_html ==
            LastAssigned(Captions(blk, {"table_footnote"},
                "<p style=\"font-size: 0.85em; color: #666; margin-top: 0.5em;\">",
                "</p>"))
    IN  IF table_html = <<>> THEN <<>>
        ELSE <<"<div style=\"margin: 1.5em 0; overflow-x: auto;\">\n">>
             \o caption_html \o <<"\n">> \o table_html \o <<"\n">> \o footnote_html
             \o <<"\n</div>", "\n", "\n">>

(***************************************************************************)
(* render_interline_equation (main.rs 335-356)                             *)
(***************************************************************************)
EquationImage(base64) ==
    <<"<div style=\"margin: 1em 0; text-align: center;\">\n<img src=\"">>
    \o base64
    \o <<"\" alt=\"equation\" style=\"max-height: 80px;\" />\n</div>", "\n", "\n">>

EquationLatex(latex) == <<"\n", "$$", "\n">> \o latex \o <<"\n", "$$", "\n", "\n">>

\* what the loop body returns at one span; <<>> when it does not return
EquationAt(span, fs) ==
    IF span.span_type # "interline_equation" THEN <<>>
    ELSE IF span.image_path.some /\ image_to_base64(span.image_path.val, fs).some
         THEN EquationImage(image_to_base64(span.image_path.val, fs).val)
    ELSE IF span.content.some THEN EquationLatex(span.content.val)
    ELSE <<>>

RECURSIVE FirstEquation(_, _)
FirstEquation(spans, fs) ==
    IF spans = <<>> THEN <<>>
    ELSE IF EquationAt(Head(spans), fs) # <<>> THEN EquationAt(Head(spans), fs)
    ELSE FirstEquation(Tail(spans), fs)

IsEquationSpan(span) == span.span_type = "interline_equation"

\* mutant: the loop returns at the first interline_equation span, whatever it holds
render_interline_equation_first_span(blk, fs) ==
    LET eqs == SelectSeq(OwnSpans(blk), IsEquationSpan) IN
        IF eqs = <<>> THEN <<>> ELSE EquationAt(eqs[1], fs)

render_interline_equation(blk, fs) == FirstEquation(OwnSpans(blk), fs)

(***************************************************************************)
(* render_index (main.rs 358-364)                                          *)
(***************************************************************************)
render_index(blk) ==
    LET text == Trim(extract_text_from_block(blk)) IN
        IF text = <<>> THEN <<>> ELSE text \o <<"\n", "\n">>

(***************************************************************************)
(* render_block (main.rs 425-436)                                          *)
(***************************************************************************)
\* mutant: a kind that is not named falls back to render_index
render_block_index_fallback(blk, fs, idx) ==
    CASE blk.block_type = "title" -> render_title(blk, idx)
      [] blk.block_type = "text" -> [html |-> render_text(blk), toc_entry |-> None]
      [] blk.block_type = "list" -> [html |-> render_list(blk), toc_entry |-> None]
      [] blk.block_type = "image" ->
            [html |-> render_image(blk, fs), toc_entry |-> None]
      [] blk.block_type = "table" ->
            [html |-> render_table(blk, fs), toc_entry |-> None]
      [] blk.block_type = "interline_equation" ->
            [html |-> render_interline_equation(blk, fs), toc_entry |-> None]
      [] OTHER -> [html |-> render_index(blk), toc_entry |-> None]

render_block(blk, fs, idx) ==
    CASE blk.block_type = "title" -> render_title(blk, idx)
      [] blk.block_type = "text" -> [html |-> render_text(blk), toc_entry |-> None]
      [] blk.block_type = "list" -> [html |-> render_list(blk), toc_entry |-> None]
      [] blk.block_type = "image" ->
            [html |-> render_image(blk, fs), toc_entry |-> None]
      [] blk.block_type = "table" ->
            [html |-> render_table(blk, fs), toc_entry |-> None]
      [] blk.block_type = "interline_equation" ->
            [html |-> render_interline_equation(blk, fs), toc_entry |-> None]
      [] blk.block_type = "index" -> [html |-> render_index(blk), toc_entry |-> None]
      [] OTHER -> [html |-> render_text(blk), toc_entry |-> None]

(***************************************************************************)
(* categorize_discarded_blocks, render_discarded_headers,                  *)
(* render_discarded_footnotes (main.rs 368-421)                            *)
(***************************************************************************)
OfKind(blocks, t) ==
    Concat([k \in 1..Len(blocks) |->
        IF blocks[k].block_type = t THEN <<blocks[k]>> ELSE <<>>])

categorize_discarded_blocks(blocks) ==
    [headers |-> OfKind(blocks, "header"),
     footnotes |-> OfKind(blocks, "page_footnote")]

DiscardedHeader(blk) ==
    LET text == Trim(extract_text_from_block(blk)) IN
        IF text = <<>> THEN <<>>
        ELSE <<"<div style=\"background: #fafafa; padding: 0.5em 1em; margin-bottom: 1em; border-radius: 4px; font-size: 0.85em; color: #888;\">\n<span>">>
             \o escape_html(text) \o <<"</span>\n</div>", "\n", "\n">>

render_discarded_headers(blocks) ==
    Concat([k \in 1..Len(blocks) |-> DiscardedHeader(blocks[k])])

DiscardedFootnote(blk) ==
    LET text == Trim(extract_text_from_block(blk)) IN
        IF text = <<>> THEN <<>>
        ELSE <<"<p style=\"margin: 0.3em 0;\">">> \o escape_html(text)
             \o <<"</p>\n">>

render_discarded_footnotes(blocks) ==
    IF blocks = <<>> THEN <<>>
    ELSE <<"<div style=\"background: #f8f8f8; padding: 0.8em 1em; margin-top: 1.5em; border-left: 3px solid #ddd; border-radius: 0 4px 4px 0; font-size: 0.85em; color: #666;\">\n">>
         \o Concat([k \in 1..Len(blocks) |-> DiscardedFootnote(blocks[k])])
         \o <<"</div>", "\n", "\n">>

(***************************************************************************)
(* render_page (main.rs 438-461), as a function of the page                *)
(***************************************************************************)
render_page(page, fs) ==
    LET categorized == categorize_discarded_blocks(page.discarded_blocks)
        rendered == [k \in 1..Len(page.para_blocks) |->
                        render_block(page.para_blocks[k], fs, page.page_idx)]
    IN  [html |-> render_discarded_headers(categorized.headers)
                  \o Concat([k \in 1..Len(rendered) |-> rendered[k].html])
                  \o render_discarded_footnotes(categorized.footnotes),
         toc_entries |-> Concat([k \in 1..Len(rendered) |->
                             IF rendered[k].toc_entry.some
                             THEN <<rendered[k].toc_entry.val>> ELSE <<>>])]

(***************************************************************************)
(* generate_toc (main.rs 465-472), generate_page_divider (main.rs 476-481) *)
(***************************************************************************)
TocPlaceholder == "<div id=\"toc-top\"></div>"

\* mutant: the placeholder is emitted whether or not an entry was collected
generate_toc_always(entries) == <<TocPlaceholder, "\n", "\n">>

generate_toc(entries) ==
    IF entries = <<>> THEN <<>> ELSE <<TocPlaceholder, "\n", "\n">>

\* "U+7B2C" and "U+9875" name the two ideographs around the page number
DividerOpen ==
    "\n<div style=\"display: flex; align-items: center; margin: 2.5em 0; gap: 1em;\">\n  <div style=\"flex: 1; height: 1px; background: #ddd;\"></div>\n  <span style=\"color: #888; font-size: 0.85em;\">U+7B2C "
DividerClose ==
    " U+9875</span>\n  <div style=\"flex: 1; height: 1px; background: #ddd;\"></div>\n</div>"

\* mutant: the divider shows the zero-based page index
generate_page_divider_zero_based(page_num) ==
    <<DividerOpen, ToString(page_num - 1), DividerClose, "\n", "\n">>

generate_page_divider(page_num) ==
    <<DividerOpen, ToString(page_num), DividerClose, "\n", "\n">>

(***************************************************************************)
(* convert_layout_to_markdown (main.rs 485-528), as a function             *)
(***************************************************************************)
StyleBlock ==
    "<style>\n  body { font-family: -apple-system, BlinkMacSystemFont, \"Segoe UI\", Roboto, \"Helvetica Neue\", Arial, sans-serif; }\n  img { border-radius: 4px; }\n  code { background: #f4f4f4; padding: 0.2em 0.4em; border-radius: 3px; font-size: 0.9em; }\n  pre { background: #f8f8f8; padding: 1em; border-radius: 6px; overflow-x: auto; }\n</style>"
OpeningRule == "<hr style=\"border: none; height: 1px; background: #ddd; margin: 2em 0;\" />"
Footer ==
    <<"\n<hr style=\"border: none; height: 1px; background: #ddd; margin: 3em 0;\" />\n",
      "<div style=\"text-align: center; color: #999; font-size: 0.85em; padding: 1em 0;\">\n",
      "Generated by MinerU JSON to Markdown Converter\n",
      "</div>\n">>

convert_layout_to_markdown(pdf_info, fs) ==
    LET pages == [k \in 1..Len(pdf_info) |-> render_page(pdf_info[k], fs)]
        entries == Concat([k \in 1..Len(pages) |-> pages[k].toc_entries])
    IN  <<StyleBlock, "\n", "\n">>
        \o generate_toc(entries)
        \o <<OpeningRule, "\n", "\n">>
        \o Concat([k \in 1..Len(pages) |->
               pages[k].html \o generate_page_divider(k)])
        \o Footer

(***************************************************************************)
(* Inputs.  The image directory: a.png, b.JPG and c (no extension) can be  *)
(* read, locked.gif exists but cannot be read, gone.png does not exist.    *)
(***************************************************************************)
PathA == Path("a", "png")
PathB == Path("b", "JPG")
PathC == Path("c", "")
PathLocked == Path("locked", "gif")
PathGone == Path("gone", "png")

ImageDir ==
    [pth \in {PathA, PathB, PathC, PathLocked} |->
        CASE pth = PathA -> [readable |-> TRUE, data |-> <<137, 80, 78>>]
          [] pth = PathB -> [readable |-> TRUE, data |-> <<255, 216>>]
          [] pth = PathC -> [readable |-> TRUE, data |-> <<71>>]
          [] OTHER -> [readable |-> FALSE, data |-> <<>>]]

Txt(c) == Span("text", c, NoPath)
Str(c) == Some(<<c>>)
TextLine(c) == Some(<<Line(<<Txt(Str(c))>>)>>)

\* the sequences over S of length at most n
SeqsUpTo(S, n) == UNION {[1..k -> S] : k \in 0..n}

\* spans cut into lines after the positions in cuts
LinesOf(spans, cuts) ==
    LET lineOf(k) == 1 + Cardinality({c \in cuts : c < k})
        first(j) == CHOOSE k \in 1..Len(spans) :
                        lineOf(k) = j /\ (k = 1 \/ lineOf(k - 1) # j)
        last(j) == CHOOSE k \in 1..Len(spans) :
                        lineOf(k) = j /\ (k = Len(spans) \/ lineOf(k + 1) # j)
    IN  IF spans = <<>> THEN <<Line(<<>>)>>
        ELSE [j \in 1..(Cardinality(cuts) + 1) |->
                 Line(SubSeq(spans, first(j), last(j)))]

\* Option<Vec<Line>> values holding at most MaxSpans spans of pool
LineSeqs(pool) ==
    {None, Some(<<>>)}
    \cup {Some(LinesOf(ss, cuts)) :
            <<ss, cuts>> \in UNION {{ss} \X SUBSET (1..(Len(ss) - 1)) :
                                      ss \in SeqsUpTo(pool, MaxSpans)}}

ChildSeqs(pool) == SeqsUpTo(pool, MaxChildren)

TextPool ==
    {Txt(None), Txt(Str(" ")), Txt(Str("x")),
     Span("inline_equation", Some(<<>>), NoPath),
     Span("inline_equation", Str("y"), NoPath),
     Span("image", Str("z"), Some(PathA))}

TextChildren ==
    {Block("list_item", TextLine("A"), None),
     Block("list_item", TextLine(" "), None),
     Block("text", Some(<<Line(<<Span("inline_equation", Str("y"), NoPath)>>)>>), None),
     Block("list_item", None, Some(<<Block("text", TextLine("B"), None)>>))}

\* "code" is a kind render_block does not name
TextKinds == {"title", "text", "list", "index", "code"}

TextBlocks ==
    {Block(t, l, None) : t \in TextKinds, l \in LineSeqs(TextPool)}
    \cup {Block(t, l, Some(cs)) : t \in TextKinds, l \in {None, TextLine("x")},
                                  cs \in ChildSeqs(TextChildren)}

Eq(c, pth) == Span("interline_equation", c, pth)

EquationPool ==
    {Eq(None, NoPath), Eq(Str("e"), NoPath), Eq(Str("f"), Some(PathA)),
     Eq(None, Some(PathB)), Eq(Str("e"), Some(PathGone)),
     Span("text", Str("x"), Some(PathA))}

EquationBlocks ==
    {Block("interline_equation", l, None) : l \in LineSeqs(EquationPool)}
    \cup {Block("interline_equation", l,
                Some(<<Block("interline_equation",
                             Some(<<Line(<<Eq(Str("e"), Some(PathA))>>)>>), None)>>)) :
            l \in {None, Some(<<Line(<<Eq(None, NoPath)>>)>>)}}

\* spans found in an image_body (t = "image") or a table_body (t = "table")
BodyPool(t) ==
    {Span(t, None, Some(PathA)), Span(t, None, Some(PathB)),
     Span(t, None, Some(PathGone)), Span(t, None, Some(PathLocked)),
     Span("text", None, Some(PathC))}

CaptionPool(kind) ==
    {Block(kind \o "_caption", TextLine("A"), None),
     Block(kind \o "_footnote", TextLine("<"), None),
     Block(kind \o "_caption", TextLine(" "), None)}

\* image blocks (kind = "image") and table blocks (kind = "table")
FigureBlocks(kind) ==
    {Block(kind, None, Some(<<Block(kind \o "_body", l, None)>> \o post)) :
        l \in LineSeqs(BodyPool(kind)),
        post \in {<<>>} \cup {<<c>> : c \in CaptionPool(kind)}}
    \cup {Block(kind, l, cs) :
            l \in {None, Some(<<Line(<<Span(kind, None, Some(PathA))>>)>>)},
            cs \in {None} \cup
                {Some(c) : c \in ChildSeqs(
                    {Block(kind \o "_body", Some(<<Line(<<sp>>)>>), None) :
                        sp \in BodyPool(kind)}
                    \cup CaptionPool(kind))}}

\* titles made of at most MaxSegs runs of one character
RECURSIVE RunTitles(_, _)
RunTitles(runs, n) ==
    IF n = 0 THEN {<<>>}
    ELSE LET shorter == RunTitles(runs, n - 1)
         IN  shorter \cup {t \o r : t \in shorter, r \in runs}

HeadingTitles ==
    RunTitles({Rep(c, n) : c \in {"a", " ", "!"}, n \in {1, LevelLimit - 1}}, MaxSegs)

HeadingBlocks == {Block("title", Some(<<Line(<<Txt(Some(t))>>)>>), None) : t \in HeadingTitles}

TestBlocks ==
    TextBlocks \cup EquationBlocks \cup FigureBlocks("image")
    \cup FigureBlocks("table") \cup HeadingBlocks

PageIdxs == {0, 11}

AnchorTitles ==
    RunTitles({Rep(c, n) : c \in {"a", "-", "!", "U+9FA6"}, n \in {1, SlugCap - 1}},
              MaxSegs)
    \cup SeqsUpTo(Chars, 2)

(***************************************************************************)
(* Documents: at most MaxPages pages drawn from PagePool.                  *)
(***************************************************************************)
TitleA == Block("title", TextLine("A"), None)
TextX == Block("text", TextLine("x"), None)
Figure(kind, pth, extra) ==
    Block(kind, None,
          Some(<<Block(kind \o "_body", Some(<<Line(<<Span(kind, None, pth)>>)>>), None)>>
               \o extra))
CaptionA(kind) == Block(kind \o "_caption", TextLine("A"), None)
FootnoteB(kind) == Block(kind \o "_footnote", TextLine("B"), None)

RECURSIVE AllSpans(_)
\* every span of a block and of its descendants
AllSpans(blk) ==
    OwnSpans(blk)
    \o (IF blk.blocks.some
        THEN Concat([k \in 1..Len(blk.blocks.val) |-> AllSpans(blk.blocks.val[k])])
        ELSE <<>>)

\* the span names a file that exists and can be read
PathResolves(span, fs) ==
    /\ span.image_path.some
    /\ span.image_path.val \in DOMAIN fs
    /\ fs[span.image_path.val].readable

\* an image or table block none of whose image paths resolves
Lost(blk, fs) ==
    /\ blk.block_type \in {"image", "table"}
    /\ \A k \in 1..Len(AllSpans(blk)) : ~PathResolves(AllSpans(blk)[k], fs)

\* image and table blocks none of whose paths resolves
LostFigures ==
    {Figure("image", Some(PathGone), <<CaptionA("image")>>),
     Figure("image", Some(PathLocked), <<FootnoteB("image")>>),
     Figure("image", NoPath, <<>>),
     Block("image", None, Some(<<CaptionA("image")>>)),
     Figure("table", Some(PathGone), <<CaptionA("table"), FootnoteB("table")>>),
     Figure("table", Some(PathLocked), <<>>)}

Discarded ==
    <<Block("header", TextLine("A"), None),
      Block("page_footnote", TextLine("&"), None),
      Block("page_number", TextLine("7"), None)>>

PagePool ==
    {PageInfo(<<>>, <<>>, 0),
     PageInfo(<<TextX>>, Discarded, 1),
     PageInfo(<<TitleA, TextX>>, <<>>, 0),
     PageInfo(<<Figure("image", Some(PathA), <<CaptionA("image")>>)>>, <<>>, 3),
     PageInfo(<<Figure("table", Some(PathB), <<CaptionA("table")>>), TextX>>, <<>>, 2)}
    \cup {PageInfo(<<TextX, f, TitleA>>, <<>>, 1) : f \in LostFigures}

\* every lost image or table block of TestBlocks, between two other blocks
LostFigurePages ==
    {PageInfo(<<TextX, f, TitleA>>, Discarded, 0) :
        f \in {g \in FigureBlocks("image") \cup FigureBlocks("table") :
                  Lost(g, ImageDir)}}

Documents ==
    SeqsUpTo(PagePool, MaxPages) \cup {<<pg>> : pg \in LostFigurePages}

\* what the input path holds
DiskStates ==
    {[state |-> st, pdf_info |-> <<>>] : st \in {"missing", "unreadable", "malformed"}}
    \cup {[state |-> "ok", pdf_info |-> d] : d \in Documents}

InputPath == Path("layout", "json")
ArgLists ==
    {<<"mineru-json-to-md">>,
     <<"mineru-json-to-md", InputPath>>,
     <<"mineru-json-to-md", InputPath, Path("out", "md")>>}

\* Path::with_extension
with_extension(pth, ext) == [pth EXCEPT !.ext = ext]

input_path == args[2]
output_path == IF Len(args) > 2 THEN args[3] ELSE with_extension(input_path, "md")

(***************************************************************************)
(* The values the variables of an operation hold while it is not running.  *)
(***************************************************************************)
IdleMain ==
    /\ args = <<>> /\ disk = [state |-> "missing", pdf_info |-> <<>>]
    /\ layout_json = <<>> /\ markdown = <<>> /\ all_toc_entries = <<>>
    /\ page_contents = <<>> /\ p = 0 /\ content_html = <<>> /\ toc_entries = <<>>
    /\ b = 0 /\ writes = <<>> /\ stderr = <<>> /\ exit_status = -1
IdleBlock ==
    /\ block = Block("", None, None) /\ page_idx = 0 /\ html = <<>>
    /\ toc_entry = None
IdleAnchor == title = <<>> /\ anchor_id = <<>>

mainVars == <<args, disk, layout_json, markdown, all_toc_entries, page_contents,
              p, content_html, toc_entries, b, writes, stderr, exit_status>>
blockVars == <<block, page_idx, html, toc_entry>>
anchorVars == <<title, anchor_id>>

(***************************************************************************)
(* main (main.rs 532-587), with convert_layout_to_markdown and render_page *)
(* run statement by statement.                                             *)
(***************************************************************************)
Init ==
    /\ pc = "main"
    /\ args \in ArgLists
    /\ disk \in DiskStates
    /\ files = ImageDir
    /\ layout_json = <<>> /\ markdown = <<>> /\ all_toc_entries = <<>>
    /\ page_contents = <<>> /\ p = 0 /\ content_html = <<>> /\ toc_entries = <<>>
    /\ b = 0 /\ writes = <<>> /\ stderr = <<>> /\ exit_status = -1
    /\ IdleBlock /\ IdleAnchor

Fail(report) ==
    /\ stderr' = Append(stderr, report)
    /\ exit_status' = 1
    /\ pc' = "exit"

\* main.rs 533-546
CheckArgs ==
    /\ pc = "main"
    /\ IF Len(args) < 2 THEN Fail("Usage")
       ELSE pc' = "exists" /\ UNCHANGED <<stderr, exit_status>>
    /\ UNCHANGED <<args, disk, files, layout_json, markdown, all_toc_entries,
                   page_contents, p, content_html, toc_entries, b, writes>>
    /\ UNCHANGED <<blockVars, anchorVars>>

\* main.rs 548-553
CheckExists ==
    /\ pc = "exists"
    /\ IF disk.state = "missing" THEN Fail("Error: File not found")
       ELSE pc' = "read" /\ UNCHANGED <<stderr, exit_status>>
    /\ UNCHANGED <<args, disk, files, layout_json, markdown, all_toc_entries,
                   page_contents, p, content_html, toc_entries, b, writes>>
    /\ UNCHANGED <<blockVars, anchorVars>>

\* main.rs 555-561
ReadInput ==
    /\ pc = "read"
    /\ IF disk.state = "unreadable" THEN Fail("Error reading file")
       ELSE pc' = "parse" /\ UNCHANGED <<stderr, exit_status>>
    /\ UNCHANGED <<args, disk, files, layout_json, markdown, all_toc_entries,
                   page_contents, p, content_html, toc_entries, b, writes>>
    /\ UNCHANGED <<blockVars, anchorVars>>

\* mutant: a parse error is reported but the run goes on with an empty document
ParseJsonKeepsGoing ==
    /\ pc = "parse"
    /\ IF disk.state = "malformed"
       THEN /\ stderr' = Append(stderr, "Error parsing JSON")
            /\ layout_json' = <<>>
            /\ pc' = "convert"
            /\ UNCHANGED exit_status
       ELSE /\ layout_json' = disk.pdf_info
            /\ pc' = "convert"
            /\ UNCHANGED <<stderr, exit_status>>
    /\ UNCHANGED <<args, disk, files, markdown, all_toc_entries,
                   page_contents, p, content_html, toc_entries, b, writes>>
    /\ UNCHANGED <<blockVars, anchorVars>>

\* main.rs 563-573
ParseJson ==
    /\ pc = "parse"
    /\ IF disk.state = "malformed"
       THEN Fail("Error parsing JSON") /\ UNCHANGED layout_json
       ELSE /\ layout_json' = disk.pdf_info
            /\ pc' = "convert"
            /\ UNCHANGED <<stderr, exit_status>>
    /\ UNCHANGED <<args, disk, files, markdown, all_toc_entries,
                   page_contents, p, content_html, toc_entries, b, writes>>
    /\ UNCHANGED <<blockVars, anchorVars>>

\* main.rs 486-495
ConvertBegin ==
    /\ pc = "convert"
    /\ markdown' = <<StyleBlock, "\n", "\n">>
    /\ all_toc_entries' = <<>>
    /\ page_contents' = <<>>
    /\ p' = 1
    /\ pc' = "pages"
    /\ UNCHANGED <<args, disk, files, layout_json, content_html, toc_entries, b,
                   writes, stderr, exit_status>>
    /\ UNCHANGED <<blockVars, anchorVars>>

\* main.rs 497-498, 439-446: the next page, its headers
PageBegin ==
    /\ pc = "pages"
    /\ p <= Len(layout_json)
    /\ toc_entries' = <<>>
    /\ content_html' = render_discarded_headers(
           categorize_discarded_blocks(layout_json[p].discarded_blocks).headers)
    /\ b' = 1
    /\ pc' = "blocks"
    /\ UNCHANGED <<args, disk, files, layout_json, markdown, all_toc_entries,
                   page_contents, p, writes, stderr, exit_status>>
    /\ UNCHANGED <<blockVars, anchorVars>>

\* main.rs 449-455: one para_block of the page
RenderBlock ==
    /\ pc = "blocks"
    /\ b <= Len(layout_json[p].para_blocks)
    /\ block' = layout_json[p].para_blocks[b]
    /\ page_idx' = layout_json[p].page_idx
    /\ LET r == render_block(block', files, page_idx')
       IN  /\ html' = r.html
           /\ toc_entry' = r.toc_entry
           /\ content_html' = content_html \o r.html
           /\ toc_entries' = IF r.toc_entry.some
                             THEN Append(toc_entries, r.toc_entry.val)
                             ELSE toc_entries
    /\ b' = b + 1
    /\ UNCHANGED <<pc, args, disk, files, layout_json, markdown, all_toc_entries,
                   page_contents, p, writes, stderr, exit_status>>
    /\ UNCHANGED anchorVars

\* main.rs 457-460, 499-500: the page's footnotes, the page is collected
PageEnd ==
    /\ pc = "blocks"
    /\ b > Len(layout_json[p].para_blocks)
    /\ content_html' = content_html \o render_discarded_footnotes(
           categorize_discarded_blocks(layout_json[p].discarded_blocks).footnotes)
    /\ page_contents' = Append(page_contents, content_html')
    /\ all_toc_entries' = all_toc_entries \o toc_entries
    /\ p' = p + 1
    /\ pc' = "pages"
    /\ UNCHANGED <<args, disk, files, layout_json, markdown, toc_entries, b,
                   writes, stderr, exit_status>>
    /\ UNCHANGED <<blockVars, anchorVars>>

\* main.rs 503-509
EmitToc ==
    /\ pc = "pages"
    /\ p > Len(layout_json)
    /\ markdown' = markdown \o generate_toc(all_toc_entries)
                   \o <<OpeningRule, "\n", "\n">>
    /\ p' = 1
    /\ pc' = "emit"
    /\ UNCHANGED <<args, disk, files, layout_json, all_toc_entries, page_contents,
                   content_html, toc_entries, b, writes, stderr, exit_status>>
    /\ UNCHANGED <<blockVars, anchorVars>>

\* main.rs 512-515; p is i + 1
EmitPage ==
    /\ pc = "emit"
    /\ p <= Len(page_contents)
    /\ markdown' = markdown \o page_contents[p] \o generate_page_divider(p)
    /\ p' = p + 1
    /\ UNCHANGED <<pc, args, disk, files, layout_json, all_toc_entries,
                   page_contents, content_html, toc_entries, b, writes, stderr,
                   exit_status>>
    /\ UNCHANGED <<blockVars, anchorVars>>

\* main.rs 517-527
EmitFooter ==
    /\ pc = "emit"
    /\ p > Len(page_contents)
    /\ markdown' = markdown \o Footer
    /\ pc' = "write"
    /\ UNCHANGED <<args, disk, files, layout_json, all_toc_entries, page_contents,
                   p, content_html, toc_entries, b, writes, stderr, exit_status>>
    /\ UNCHANGED <<blockVars, anchorVars>>

\* main.rs 577-581: fs::write succeeds
WriteOutput ==
    /\ pc = "write"
    /\ writes' = Append(writes,
                        [path |-> output_path, content |-> markdown, ok |-> TRUE])
    /\ exit_status' = 0
    /\ pc' = "exit"
    /\ UNCHANGED <<args, disk, files, layout_json, markdown, all_toc_entries,
                   page_contents, p, content_html, toc_entries, b, stderr>>
    /\ UNCHANGED <<blockVars, anchorVars>>

\* main.rs 577, 582-585: fs::write fails
WriteFails ==
    /\ pc = "write"
    /\ writes' = Append(writes,
                        [path |-> output_path, content |-> markdown, ok |-> FALSE])
    /\ Fail("Error writing output")
    /\ UNCHANGED <<args, disk, files, layout_json, markdown, all_toc_entries,
                   page_contents, p, content_html, toc_entries, b>>
    /\ UNCHANGED <<blockVars, anchorVars>>

Next ==
    \/ CheckArgs \/ CheckExists \/ ReadInput \/ ParseJson
    \/ ConvertBegin \/ PageBegin \/ RenderBlock \/ PageEnd
    \/ EmitToc \/ EmitPage \/ EmitFooter
    \/ WriteOutput \/ WriteFails

Spec == Init /\ [][Next]_vars

(***************************************************************************)
(* render_block applied to one block (main.rs 425-436).                    *)
(***************************************************************************)
InitBlock ==
    /\ pc = "render_block"
    /\ block \in TestBlocks
    /\ page_idx \in PageIdxs
    /\ files = ImageDir
    /\ html = <<>> /\ toc_entry = None
    /\ IdleMain /\ IdleAnchor

CallRenderBlock ==
    /\ pc = "render_block"
    /\ html' = render_block(block, files, page_idx).html
    /\ toc_entry' = render_block(block, files, page_idx).toc_entry
    /\ pc' = "returned"
    /\ UNCHANGED <<block, page_idx, files, mainVars, anchorVars>>

NextBlock == CallRenderBlock

SpecBlock == InitBlock /\ [][NextBlock]_vars

(***************************************************************************)
(* generate_anchor_id applied to one title (main.rs 99-123).               *)
(***************************************************************************)
InitAnchor ==
    /\ pc = "generate_anchor_id"
    /\ title \in AnchorTitles
    /\ page_idx \in PageIdxs
    /\ files = ImageDir
    /\ anchor_id = <<>>
    /\ block = Block("", None, None) /\ html = <<>> /\ toc_entry = None
    /\ IdleMain

CallGenerateAnchorId ==
    /\ pc = "generate_anchor_id"
    /\ anchor_id' = generate_anchor_id(title, page_idx)
    /\ pc' = "returned"
    /\ UNCHANGED <<title, page_idx, files, block, html, toc_entry, mainVars>>

NextAnchor == CallGenerateAnchorId

SpecAnchor == InitAnchor /\ [][NextAnchor]_vars

(***************************************************************************)
(* Properties.                                                             *)
(***************************************************************************)
Count(seq, a) == Cardinality({k \in 1..Len(seq) : seq[k] = a})
FirstPos(seq, a) ==
    CHOOSE k \in 1..Len(seq) : seq[k] = a /\ \A j \in 1..(k - 1) : seq[j] # a
SetMin(S) == CHOOSE x \in S : \A y \in S : x <= y
SetMax(S) == CHOOSE x \in S : \A y \in S : x >= y

\* some title block of the document has text left after trimming
HasHeading(pdf_info) ==
    \E k \in 1..Len(pdf_info) : \E j \in 1..Len(pdf_info[k].para_blocks) :
        /\ pdf_info[k].para_blocks[j].block_type = "title"
        /\ Trim(extract_text_from_block(pdf_info[k].para_blocks[j])) # <<>>

\* what precedes the opening horizontal rule of the output
BeforeRule == SubSeq(markdown, 1, FirstPos(markdown, OpeningRule) - 1)

C2_PageDividers ==
    pc = "write" =>
        LET n == Len(layout_json)
            start == FirstPos(markdown, OpeningRule) + 3
            stop == Len(markdown) - Len(Footer)
        IN  /\ Count(markdown, DividerOpen) = n
            /\ SubSeq(markdown, start, stop) =
                   Concat([k \in 1..n |->
                       render_page(layout_json[k], files).html
                       \o <<DividerOpen, ToString(k), DividerClose, "\n", "\n">>])
            /\ SubSeq(markdown, stop + 1, Len(markdown)) = Footer

C2_Witness ==
    /\ pc = "write"
    /\ Len(page_contents) = 2
    /\ page_contents[1] # <<>> /\ page_contents[2] # <<>>
    /\ page_contents[1] # page_contents[2]
    /\ Count(markdown, DividerOpen) = 2

\* C3: fs::write is called at most once (succeeding or not), with the whole
\* rendered document and only as the last step of the run; a run ending in a
\* usage error, an input-not-found error, a read error or a parse error exits
\* with status 1 and has never called fs::write.
C3_WriteOnceAfterRender ==
    /\ Len(writes) <= 1
    /\ pc # "exit" => writes = <<>>
    /\ writes # <<>> =>
        /\ Len(args) >= 2 /\ disk.state = "ok"
        /\ writes[1].path = output_path
        /\ writes[1].content = convert_layout_to_markdown(disk.pdf_info, files)
    /\ (pc = "exit" /\ (Len(args) < 2 \/ disk.state # "ok")) =>
        /\ exit_status = 1
        /\ writes = <<>>
        /\ stderr = <<IF Len(args) < 2 THEN "Usage"
                      ELSE IF disk.state = "missing" THEN "Error: File not found"
                      ELSE IF disk.state = "unreadable" THEN "Error reading file"
                      ELSE "Error parsing JSON">>

C3_Witness ==
    /\ pc = "exit"
    /\ Len(args) = 3
    /\ disk.state = "malformed"
    /\ exit_status = 1
    /\ writes = <<>>

\* the document with its lost image and table blocks taken out
WithoutLost(pdf_info, fs) ==
    [k \in 1..Len(pdf_info) |->
        [pdf_info[k] EXCEPT
            !.para_blocks = SelectSeq(@, LAMBDA blk : ~Lost(blk, fs))]]

\* C4: an image or table block in which no image path resolves renders as
\* the empty fragment, captions and footnotes or not; the page buffer and the
\* page's TOC entries are left as they were, and the converted document is
\* the one obtained with these blocks removed.
C4_LostFigureAbsorbed ==
    [][/\ (/\ pc = "blocks"
           /\ b <= Len(layout_json[p].para_blocks)
           /\ Lost(layout_json[p].para_blocks[b], files))
          => (/\ html' = <<>>
              /\ toc_entry' = None
              /\ content_html' = content_html
              /\ toc_entries' = toc_entries)
       /\ (pc = "emit" /\ pc' = "write")
          => markdown' = convert_layout_to_markdown(WithoutLost(layout_json, files), files)
      ]_vars

C4_Witness ==
    /\ pc = "blocks"
    /\ b = 3
    /\ block = Figure("image", Some(PathGone), <<CaptionA("image")>>)
    /\ html = <<>>
    /\ content_html = <<"x", "\n", "\n">>

\* C5 as stated: a text, list or index block whose extracted text is empty
\* after trimming renders as the empty fragment.
C5_BlankTextEmptyFragment ==
    (/\ pc = "returned"
     /\ block.block_type \in {"text", "list", "index"}
     /\ Trim(extract_text_from_block(block)) = <<>>)
    => html = <<>>

\* the slug part of an anchor id: what follows "toc-", the page index and "-"
SlugOf(id) == SubSeq(id, 4, Len(id))

SlugChar(c) ==
    \/ c = "-"
    \/ is_alphanumeric(c)
    \/ (CodePoint(c) >= 19968 /\ CodePoint(c) <= 40869)

\* the title with every character that is not kept replaced by a hyphen
Hyphenated(t) ==
    [k \in 1..Len(t) |-> IF SlugChar(t[k]) /\ t[k] # "-" THEN t[k] ELSE "-"]

\* Hyphenated(t) from its first to its last character that is no hyphen
Stripped(t) ==
    LET kept == {k \in 1..Len(t) : Hyphenated(t)[k] # "-"} IN
        IF kept = {} THEN <<>>
        ELSE SubSeq(Hyphenated(t), SetMin(kept), SetMax(kept))

Capped(t) ==
    SubSeq(Stripped(t), 1, IF Len(Stripped(t)) > SlugCap THEN SlugCap
                           ELSE Len(Stripped(t)))

SlugExpected(t) ==
    IF Capped(t) = <<>> THEN <<"t", "i", "t", "l", "e">> ELSE Capped(t)

\* C6 as stated: the id is toc-{p}-{slug}, the slug being the title with the
\* other characters replaced by hyphens, stripped of leading and trailing
\* hyphens and cut to 50 characters ("title" when nothing remains); it has at
\* most 50 characters, all alphanumeric, CJK or hyphens, and neither starts
\* nor ends with a hyphen.
C6_SlugNeverEndsWithHyphen ==
    pc = "returned" =>
        LET slug == SlugOf(anchor_id) IN
            /\ SubSeq(anchor_id, 1, 3) = <<"toc-", ToString(page_idx), "-">>
            /\ slug = SlugExpected(title)
            /\ Len(slug) >= 1 /\ Len(slug) <= SlugCap
            /\ \A k \in 1..Len(slug) : SlugChar(slug[k])
            /\ slug[1] # "-"
            /\ slug[Len(slug)] # "-"

\* C6 amended: as stated, except that the slug may end with a hyphen when the
\* stripped slug was longer than 50 characters and the cut fell right after a
\* hyphen (the hyphens are stripped before the cut, not after it).
C6_SlugShape ==
    pc = "returned" =>
        LET slug == SlugOf(anchor_id) IN
            /\ SubSeq(anchor_id, 1, 3) = <<"toc-", ToString(page_idx), "-">>
            /\ slug = SlugExpected(title)
            /\ Len(slug) >= 1 /\ Len(slug) <= SlugCap
            /\ \A k \in 1..Len(slug) : SlugChar(slug[k])
            /\ slug[1] # "-"
            /\ slug[Len(slug)] = "-" =>
                   (Len(slug) = SlugCap /\ Len(Stripped(title)) > SlugCap)

C6_Witness ==
    /\ pc = "returned"
    /\ Len(SlugOf(anchor_id)) = SlugCap
    /\ SlugOf(anchor_id)[SlugCap] = "-"

\* C7: a title block whose trimmed text is empty gives an empty fragment and
\* no TocEntry; otherwise the fragment is the anchor tag, a 2-hash heading
\* (at most 20 code points) or a 3-hash heading (21 or more) and a blank
\* line, and the TocEntry has level 1 or 2 accordingly, page number p + 1 and
\* the anchor id of the tag.
C7_TitleLevels ==
    (pc = "returned" /\ block.block_type = "title") =>
        LET text == Trim(extract_text_from_block(block)) IN
            IF text = <<>> THEN html = <<>> /\ ~toc_entry.some
            ELSE /\ toc_entry.some
                 /\ toc_entry.val.level = (IF Len(text) <= LevelLimit THEN 1 ELSE 2)
                 /\ toc_entry.val.page_idx = page_idx + 1
                 /\ SubSeq(toc_entry.val.anchor_id, 1, 3)
                        = <<"toc-", ToString(page_idx), "-">>
                 /\ html = <<"<a id=\"">> \o toc_entry.val.anchor_id
                           \o <<"\"></a>\n",
                                IF Len(text) <= LevelLimit THEN "##" ELSE "###",
                                " ">>
                           \o text \o <<"\n", "\n">>

C7_Witness ==
    /\ pc = "returned"
    /\ block.block_type = "title"
    /\ Len(Trim(extract_text_from_block(block))) = LevelLimit
    /\ Len(extract_text_from_block(block)) > LevelLimit
    /\ toc_entry.some
    /\ toc_entry.val.level = 1

Recognised ==
    {"title", "text", "list", "image", "table", "interline_equation", "index"}

\* the Content Extractor's text, trimmed, and a blank line; empty when blank
ExtractedParagraph(blk) ==
    LET text == Trim(extract_text_from_block(blk)) IN
        IF text = <<>> THEN <<>> ELSE text \o <<"\n", "\n">>

\* the text and inline-equation spans of the block's own lines, the equations
\* between dollar signs, trimmed, and a blank line; empty when blank
RichParagraph(blk) ==
    LET text == Trim(render_rich_text(blk).html) IN
        IF text = <<>> THEN <<>> ELSE text \o <<"\n", "\n">>

C9_FirstResolvedImageShown ==
    (pc = "returned" /\ block.block_type = "image") =>
        LET uris == Resolved(block, "image_body", "image", files) IN
            Len(uris) >= 2 =>
                SubSeq(html, 2, 1 + Len(ImgTag(uris[1], "figure")))
                    = ImgTag(uris[1], "figure")

\* what one interline_equation span renders as when it decides
EquationOf(span, fs) ==
    IF PathResolves(span, fs)
    THEN EquationImage(image_to_base64(span.image_path.val, fs).val)
    ELSE IF span.content.some THEN EquationLatex(span.content.val)
    ELSE <<>>

\* C10 as stated: the first interline_equation span of the block's own lines
\* decides: image if its path resolves, else $$ block if it has content, else
\* nothing; no later span and no child block contributes.
C10_FirstSpanDecides ==
    (pc = "returned" /\ block.block_type = "interline_equation") =>
        LET eqs == SelectSeq(OwnSpans(block), IsEquationSpan) IN
            html = IF eqs = <<>> THEN <<>> ELSE EquationOf(eqs[1], files)

\* an interline_equation span with a resolvable image path or with content
HoldsEquation(span, fs) ==
    IsEquationSpan(span) /\ (PathResolves(span, fs) \/ span.content.some)

\* C10 amended: at most one equation is rendered, decided by the first
\* interline_equation span of the block's own lines that has a resolvable
\* image path or has content (spans of that kind with neither are passed
\* over): image if its path resolves, else $$ block; nothing when there is no
\* such span.  Spans after it and spans of child blocks never contribute.
C10_FirstHoldingSpanDecides ==
    (pc = "returned" /\ block.block_type = "interline_equation") =>
        LET eqs == SelectSeq(OwnSpans(block), LAMBDA sp : HoldsEquation(sp, files)) IN
            /\ html = IF eqs = <<>> THEN <<>> ELSE EquationOf(eqs[1], files)
            /\ Count(html, "$$") <= 2
            /\ Count(html, "<div style=\"margin: 1em 0; text-align: center;\">\n<img src=\"") <= 1

C10_Witness ==
    /\ pc = "returned"
    /\ block.block_type = "interline_equation"
    /\ LET eqs == SelectSeq(OwnSpans(block), IsEquationSpan) IN
           /\ Len(eqs) >= 2
           /\ ~HoldsEquation(eqs[1], files)
           /\ html = EquationOf(eqs[2], files)
           /\ html # <<>>
====
